---- MODULE Spec2Model ----
(***************************************************************************)
(* Model of src/src/gitlab_tools/progress.py: ProgressManager (the run     *)
(* level tracker) and BranchProgressManager (the per-repository tracker).  *)
(*                                                                         *)
(* A behaviour follows ONE tracker object, of either class, from the state *)
(* its constructor leaves through any sequence of calls of its methods.    *)
(* The two classes share no state (no class attribute, no global), so an   *)
(* object of one class is not affected by calls on an object of the other. *)
(* The variables are the attributes of self (those of the other class keep *)
(* a placeholder), the tqdm display the object talks to, what the last     *)
(* call wrote to standard output and returned, and the history of the      *)
(* arguments the caller passed.                                            *)
(*                                                                         *)
(* Strings are sequences of Unicode code points, so that Python's string   *)
(* comparison (sorted) and string formatting (f-strings) are computed and  *)
(* not assumed.  Standard output is a sequence of lines; the inputs hold   *)
(* no newline character.                                                   *)
(***************************************************************************)
EXTENDS Integers, Sequences, FiniteSets, TLC

VARIABLES
    cls,            \* class of self: "ProgressManager" or "BranchProgressManager"
    repo_name,      \* self.repo_name      (BranchProgressManager)
    total_repos,    \* self.total_repos    (ProgressManager)
    total_branches, \* self.total_branches (BranchProgressManager)
    quiet,          \* self.quiet
    processed,      \* self.processed      (ProgressManager)
    errors,         \* self.errors: ErrorRecord list, or (branch, message) list
    progress_bar,   \* self.progress_bar: "None" or "tqdm"
    display,        \* the tqdm object: the calls it has received
    stdout,         \* lines the most recent call printed
    returned,       \* value the most recent get_errors call returned
    since_get,      \* "never" | "clean" | "recorded": record_error since get_errors
    advances,       \* history: the counts passed to update, in call order
    recorded,       \* history: the arguments passed to record_error, in call order
    closed          \* history: close has been called

vars == <<cls, repo_name, total_repos, total_branches, quiet, processed, errors,
          progress_bar, display, stdout, returned, since_get, advances, recorded,
          closed>>

----------------------------------------------------------------------------
(* Bounds and input sets *)

MaxErrors == 3
MaxAdvances == 2
MaxCloses == 2

\* "B", "a", "ab": code point order puts "B" first, and the prefix "a" before "ab"
UnitNames == { <<66>>, <<97>>, <<97, 98>> }
\* "" (no branch) and "b"
Branches == { <<>>, <<98>> }
\* "x"
Messages == { <<120>> }
Counts == { -1, 2 }
Totals == { 0, 2 }

----------------------------------------------------------------------------
(* Strings *)

\* Python str.__lt__: code point by code point, a proper prefix comes first
StrLess(s, t) ==
    \E k \in 1..(Len(s) + 1) :
        /\ k <= Len(t)
        /\ \A j \in 1..(k - 1) : s[j] = t[j]
        /\ (k = Len(s) + 1 \/ s[k] < t[k])

RECURSIVE NatToStr(_)
NatToStr(n) ==
    IF n < 10 THEN <<48 + n>> ELSE NatToStr(n \div 10) \o <<48 + (n % 10)>>

\* str(int): "{self.processed}" in an f-string
IntToStr(n) == IF n < 0 THEN <<45>> \o NatToStr(0 - n) ELSE NatToStr(n)

SeparatorWidth == 80
\* "=" * 80
Separator == [i \in 1..SeparatorWidth |-> 61]
EmptyLine == <<>>

----------------------------------------------------------------------------
(* ErrorRecord and the summary text *)

\* ErrorRecord(repository, branch, message)
ErrorRecord(repository, branch, message) ==
    [repository |-> repository, branch |-> branch, message |-> message]

\* f"PROCESSING COMPLETE: {self.processed}/{self.total_repos} repositories processed"
HeaderLine(p, t) ==
    <<80, 82, 79, 67, 69, 83, 83, 73, 78, 71, 32, 67, 79, 77, 80, 76, 69, 84, 69, 58, 32>>
    \o IntToStr(p) \o <<47>> \o IntToStr(t)
    \o <<32, 114, 101, 112, 111, 115, 105, 116, 111, 114, 105, 101, 115, 32,
         112, 114, 111, 99, 101, 115, 115, 101, 100>>

\* "✓ No errors encountered!"
NoErrorsLine ==
    <<10003, 32, 78, 111, 32, 101, 114, 114, 111, 114, 115, 32,
      101, 110, 99, 111, 117, 110, 116, 101, 114, 101, 100, 33>>

\* f"✗ {len(self.errors)} ERROR(S) ENCOUNTERED:"
CountLine(n) ==
    <<10007, 32>> \o IntToStr(n)
    \o <<32, 69, 82, 82, 79, 82, 40, 83, 41, 32,
         69, 78, 67, 79, 85, 78, 84, 69, 82, 69, 68, 58>>

\* f"Repository: {repo_name}"
RepositoryLine(name) ==
    <<82, 101, 112, 111, 115, 105, 116, 111, 114, 121, 58, 32>> \o name

\* f"  • Branch [{error.branch}]: {error.message}" when error.branch is truthy
\* (a non-empty string), f"  • {error.message}" otherwise
ErrorLine(error) ==
    IF error.branch # <<>>
    THEN <<32, 32, 8226, 32, 66, 114, 97, 110, 99, 104, 32, 91>> \o error.branch
         \o <<93, 58, 32>> \o error.message
    ELSE <<32, 32, 8226, 32>> \o error.message

\* Mutant of ErrorsByRepo: insert(0, error) instead of append(error)
RECURSIVE ErrorsByRepoPrepending(_)
ErrorsByRepoPrepending(errs) ==
    IF errs = <<>> THEN [k \in {} |-> <<>>]
    ELSE LET d == ErrorsByRepoPrepending(SubSeq(errs, 1, Len(errs) - 1))
             error == errs[Len(errs)]
             d1 == IF error.repository \notin DOMAIN d
                   THEN d @@ (error.repository :> <<>>)
                   ELSE d
         IN  [d1 EXCEPT ![error.repository] = <<error>> \o @]

\* Mutant of ErrorsByRepo: the list of a repository is reset at every error
RECURSIVE ErrorsByRepoOverwriting(_)
ErrorsByRepoOverwriting(errs) ==
    IF errs = <<>> THEN [k \in {} |-> <<>>]
    ELSE LET d == ErrorsByRepoOverwriting(SubSeq(errs, 1, Len(errs) - 1))
             error == errs[Len(errs)]
             d1 == IF error.repository \notin DOMAIN d
                   THEN d @@ (error.repository :> <<>>)
                   ELSE d
         IN  [d1 EXCEPT ![error.repository] = <<error>>]

\* The dict errors_by_repo after the grouping loop: repository -> list of its
\* errors, each list in the order the loop met them
RECURSIVE ErrorsByRepo(_)
ErrorsByRepo(errs) ==
    IF errs = <<>> THEN [k \in {} |-> <<>>]
    ELSE LET d == ErrorsByRepo(SubSeq(errs, 1, Len(errs) - 1))
             error == errs[Len(errs)]
             d1 == IF error.repository \notin DOMAIN d
                   THEN d @@ (error.repository :> <<>>)
                   ELSE d
         IN  [d1 EXCEPT ![error.repository] = Append(@, error)]

\* Mutant of Sorted: sorted(keys, reverse=True)
RECURSIVE SortedDescending(_)
SortedDescending(keys) ==
    IF keys = {} THEN <<>>
    ELSE LET m == CHOOSE x \in keys : \A y \in keys \ {x} : StrLess(y, x)
         IN  <<m>> \o SortedDescending(keys \ {m})

\* sorted(keys) on strings: ascending by StrLess
RECURSIVE Sorted(_)
Sorted(keys) ==
    IF keys = {} THEN <<>>
    ELSE LET m == CHOOSE x \in keys : \A y \in keys \ {x} : StrLess(x, y)
         IN  <<m>> \o Sorted(keys \ {m})

\* The loop "for repo_name in sorted(...)": header, one line per error, print()
RECURSIVE RepoBlocks(_, _)
RepoBlocks(names, errors_by_repo) ==
    IF names = <<>> THEN <<>>
    ELSE LET repo == Head(names)
             list == errors_by_repo[repo]
         IN  <<RepositoryLine(repo)>>
             \o [i \in 1..Len(list) |-> ErrorLine(list[i])]
             \o <<EmptyLine>>
             \o RepoBlocks(Tail(names), errors_by_repo)

\* Mutant of SummaryLines: the "if not self.errors" branch is missing
SummaryLinesWithoutEmptyCase(p, t, errs) ==
    <<EmptyLine, Separator, HeaderLine(p, t), Separator>>
    \o <<EmptyLine, CountLine(Len(errs)), EmptyLine>>
    \o RepoBlocks(Sorted(DOMAIN ErrorsByRepo(errs)), ErrorsByRepo(errs))

\* Everything print_summary prints, line by line
SummaryLines(p, t, errs) ==
    <<EmptyLine, Separator, HeaderLine(p, t), Separator>>
    \o IF errs = <<>>
       THEN <<EmptyLine, NoErrorsLine>>
       ELSE <<EmptyLine, CountLine(Len(errs)), EmptyLine>>
            \o RepoBlocks(Sorted(DOMAIN ErrorsByRepo(errs)), ErrorsByRepo(errs))

\* Mutant of GetErrors: branch and message swapped in the ErrorRecord
GetErrorsSwapped(name, pairs) ==
    [i \in 1..Len(pairs) |-> ErrorRecord(name, pairs[i][2], pairs[i][1])]

\* get_errors: the list comprehension over self.errors
GetErrors(name, pairs) ==
    [i \in 1..Len(pairs) |-> ErrorRecord(name, pairs[i][1], pairs[i][2])]

----------------------------------------------------------------------------
(* The tqdm display *)

NoDisplay == [created |-> FALSE, total |-> 0, n |-> 0, close_calls |-> 0]

\* Mutant of CreatesDisplay: quiet is not looked at
CreatesDisplayIgnoringQuiet(total, q) == total > 0

\* __init__'s condition: "if total > 0 and not quiet"
CreatesDisplay(total, q) == total > 0 /\ ~q

\* self.progress_bar after __init__: None unless the condition holds
NewProgressBar(total, q) == IF CreatesDisplay(total, q) THEN "tqdm" ELSE "None"

\* The tqdm object __init__ creates, if it creates one
NewDisplay(total, q) ==
    IF CreatesDisplay(total, q)
    THEN [created |-> TRUE, total |-> total, n |-> 0, close_calls |-> 0]
    ELSE NoDisplay

\* "if self.progress_bar": None is falsy; tqdm.__bool__ is total > 0
Truthy(bar, d) == bar # "None" /\ d.total > 0

\* update's guard: "if self.progress_bar and not self.quiet"
UpdatesDisplay(bar, d, q) == Truthy(bar, d) /\ ~q

\* close's guard: "if self.progress_bar"
ClosesDisplay(bar, d) == Truthy(bar, d)

\* Mutant of AddProcessed: self.processed -= count
AddProcessedSubtracting(p, count) == p - count

\* self.processed += count
AddProcessed(p, count) == p + count

----------------------------------------------------------------------------
(* Construction *)

\* ProgressManager(total_repos, quiet)
InitProgressManager ==
    /\ cls = "ProgressManager"
    /\ total_repos \in Totals
    /\ quiet \in BOOLEAN
    /\ processed = 0
    /\ errors = <<>>
    /\ progress_bar = NewProgressBar(total_repos, quiet)
    /\ display = NewDisplay(total_repos, quiet)
    /\ repo_name = <<>>
    /\ total_branches = 0

\* BranchProgressManager(repo_name, total_branches, quiet)
InitBranchProgressManager ==
    /\ cls = "BranchProgressManager"
    /\ repo_name \in UnitNames
    /\ total_branches \in Totals
    /\ quiet \in BOOLEAN
    /\ errors = <<>>
    /\ progress_bar = NewProgressBar(total_branches, quiet)
    /\ display = NewDisplay(total_branches, quiet)
    /\ total_repos = 0
    /\ processed = 0

Init ==
    /\ (InitProgressManager \/ InitBranchProgressManager)
    /\ stdout = <<>>
    /\ returned = <<>>
    /\ since_get = "never"
    /\ advances = <<>>
    /\ recorded = <<>>
    /\ closed = FALSE

----------------------------------------------------------------------------
(* ProgressManager *)

\* Mutant of PM_update: processed is clamped to total_repos
PM_update_clamped(count) ==
    /\ cls = "ProgressManager"
    /\ Len(advances) < MaxAdvances
    /\ processed' = IF processed + count > total_repos
                    THEN total_repos
                    ELSE processed + count
    /\ display' = IF UpdatesDisplay(progress_bar, display, quiet)
                  THEN [display EXCEPT !.n = @ + count]
                  ELSE display
    /\ advances' = Append(advances, count)
    /\ stdout' = <<>>
    /\ UNCHANGED <<cls, repo_name, total_repos, total_branches, quiet, errors,
                   progress_bar, returned, since_get, recorded, closed>>

PM_update(count) ==
    /\ cls = "ProgressManager"
    /\ Len(advances) < MaxAdvances
    /\ processed' = AddProcessed(processed, count)
    /\ display' = IF UpdatesDisplay(progress_bar, display, quiet)
                  THEN [display EXCEPT !.n = @ + count]
                  ELSE display
    /\ advances' = Append(advances, count)
    /\ stdout' = <<>>
    /\ UNCHANGED <<cls, repo_name, total_repos, total_branches, quiet, errors,
                   progress_bar, returned, since_get, recorded, closed>>

PM_record_error(repository, branch, message) ==
    /\ cls = "ProgressManager"
    /\ Len(errors) < MaxErrors
    /\ errors' = Append(errors, ErrorRecord(repository, branch, message))
    /\ recorded' = Append(recorded, <<repository, branch, message>>)
    /\ stdout' = <<>>
    /\ UNCHANGED <<cls, repo_name, total_repos, total_branches, quiet, processed,
                   progress_bar, display, returned, since_get, advances, closed>>

PM_close ==
    /\ cls = "ProgressManager"
    /\ display.close_calls < MaxCloses
    /\ closed' = TRUE
    /\ display' = IF ClosesDisplay(progress_bar, display)
                  THEN [display EXCEPT !.close_calls = @ + 1]
                  ELSE display
    /\ stdout' = <<>>
    /\ UNCHANGED <<cls, repo_name, total_repos, total_branches, quiet, processed,
                   errors, progress_bar, returned, since_get, advances, recorded>>

PM_print_summary ==
    /\ cls = "ProgressManager"
    /\ stdout' = SummaryLines(processed, total_repos, errors)
    /\ UNCHANGED <<cls, repo_name, total_repos, total_branches, quiet, processed,
                   errors, progress_bar, display, returned, since_get, advances,
                   recorded, closed>>

----------------------------------------------------------------------------
(* BranchProgressManager *)

BPM_update(count) ==
    /\ cls = "BranchProgressManager"
    /\ Len(advances) < MaxAdvances
    /\ display' = IF UpdatesDisplay(progress_bar, display, quiet)
                  THEN [display EXCEPT !.n = @ + count]
                  ELSE display
    /\ advances' = Append(advances, count)
    /\ UNCHANGED <<cls, repo_name, total_repos, total_branches, quiet, processed,
                   errors, progress_bar, stdout, returned, since_get, recorded, closed>>

BPM_record_error(branch, message) ==
    /\ cls = "BranchProgressManager"
    /\ Len(errors) < MaxErrors
    /\ errors' = Append(errors, <<branch, message>>)
    /\ recorded' = Append(recorded, <<branch, message>>)
    /\ since_get' = IF since_get = "never" THEN "never" ELSE "recorded"
    /\ UNCHANGED <<cls, repo_name, total_repos, total_branches, quiet, processed,
                   progress_bar, display, stdout, returned, advances, closed>>

BPM_close ==
    /\ cls = "BranchProgressManager"
    /\ display.close_calls < MaxCloses
    /\ closed' = TRUE
    /\ display' = IF ClosesDisplay(progress_bar, display)
                  THEN [display EXCEPT !.close_calls = @ + 1]
                  ELSE display
    /\ UNCHANGED <<cls, repo_name, total_repos, total_branches, quiet, processed,
                   errors, progress_bar, stdout, returned, since_get, advances,
                   recorded>>

\* Mutant of BPM_get_errors: the list is cleared once it has been returned
BPM_get_errors_clearing ==
    /\ cls = "BranchProgressManager"
    /\ returned' = GetErrors(repo_name, errors)
    /\ errors' = <<>>
    /\ since_get' = "clean"
    /\ UNCHANGED <<cls, repo_name, total_repos, total_branches, quiet, processed,
                   progress_bar, display, stdout, advances, recorded, closed>>

BPM_get_errors ==
    /\ cls = "BranchProgressManager"
    /\ returned' = GetErrors(repo_name, errors)
    /\ since_get' = "clean"
    /\ UNCHANGED <<cls, repo_name, total_repos, total_branches, quiet, processed,
                   errors, progress_bar, display, stdout, advances, recorded, closed>>

----------------------------------------------------------------------------

Next ==
    \/ \E count \in Counts : PM_update(count)
    \/ \E repository \in UnitNames, branch \in Branches, message \in Messages :
           PM_record_error(repository, branch, message)
    \/ PM_close
    \/ PM_print_summary
    \/ \E count \in Counts : BPM_update(count)
    \/ \E branch \in Branches, message \in Messages : BPM_record_error(branch, message)
    \/ BPM_close
    \/ BPM_get_errors

Spec == Init /\ [][Next]_vars

----------------------------------------------------------------------------
(* Reading the printed summary back *)

HasPrefix(prefix, line) ==
    Len(line) >= Len(prefix) /\ SubSeq(line, 1, Len(prefix)) = prefix

RepositoryPrefix == <<82, 101, 112, 111, 115, 105, 116, 111, 114, 121, 58, 32>>
BulletPrefix == <<32, 32, 8226, 32>>
BranchOpen == <<66, 114, 97, 110, 99, 104, 32, 91>>
BranchClose == <<93, 58, 32>>
CountPrefix == <<10007, 32>>
CountSuffix ==
    <<32, 69, 82, 82, 79, 82, 40, 83, 41, 32,
      69, 78, 67, 79, 85, 78, 84, 69, 82, 69, 68, 58>>

IsRepositoryLine(line) == HasPrefix(RepositoryPrefix, line)
IsErrorLine(line) == HasPrefix(BulletPrefix, line)
IsCountLine(line) == HasPrefix(CountPrefix, line)

\* The unit names of the printed blocks, in the order printed
PrintedUnits ==
    LET headers == SelectSeq(stdout, IsRepositoryLine)
    IN  [i \in 1..Len(headers) |->
            SubSeq(headers[i], Len(RepositoryPrefix) + 1, Len(headers[i]))]

\* The lines of the block whose header is line i: up to the next blank line
BlockOf(i) ==
    LET end == CHOOSE j \in (i + 1)..Len(stdout) :
                   /\ stdout[j] = EmptyLine
                   /\ \A k \in (i + 1)..(j - 1) : stdout[k] # EmptyLine
    IN  SubSeq(stdout, i + 1, end - 1)

\* The line a recorded error <<unit, sub_unit, message>> is to be rendered as
ExpectedLine(r) ==
    IF r[2] = <<>>
    THEN BulletPrefix \o r[3]
    ELSE BulletPrefix \o BranchOpen \o r[2] \o BranchClose \o r[3]

\* The recorded errors of one unit, in recording order
RecordedFor(unit) == SelectSeq(recorded, LAMBDA r : r[1] = unit)

Occurrences(x, seq) == Cardinality({i \in 1..Len(seq) : seq[i] = x})

IsPrefixOf(s, t) == Len(s) <= Len(t) /\ SubSeq(t, 1, Len(s)) = s

RECURSIVE SumSeq(_)
SumSeq(seq) == IF seq = <<>> THEN 0 ELSE Head(seq) + SumSeq(Tail(seq))

Printed == cls = "ProgressManager" /\ stdout # <<>>

----------------------------------------------------------------------------
(* Claims *)

\* C1: when at least one error was recorded, print_summary prints exactly one
\* block per distinct unit name, and the blocks are in strictly ascending
\* lexicographic order of unit name, whatever the recording order.
C1_UnitsSorted ==
    (Printed /\ recorded # <<>>) =>
        /\ {PrintedUnits[i] : i \in 1..Len(PrintedUnits)}
               = {recorded[k][1] : k \in 1..Len(recorded)}
        /\ \A i, j \in 1..Len(PrintedUnits) :
               i < j => StrLess(PrintedUnits[i], PrintedUnits[j])

\* Three units were recorded in an order that is not the sorted one, and printed
C1_Witness ==
    /\ Printed
    /\ Len(recorded) = 3
    /\ recorded[1][1] = <<97, 98>>
    /\ recorded[2][1] = <<66>>
    /\ recorded[3][1] = <<97>>

\* C2: within the block of one unit the error lines are in the order in which
\* that unit's errors were recorded, also with other units' errors in between.
C2_OrderWithinUnit ==
    Printed =>
        \A i \in 1..Len(stdout) :
            IsRepositoryLine(stdout[i]) =>
                LET unit == SubSeq(stdout[i], Len(RepositoryPrefix) + 1, Len(stdout[i]))
                    mine == RecordedFor(unit)
                IN  BlockOf(i) = [k \in 1..Len(mine) |-> ExpectedLine(mine[k])]

\* Two different errors of one unit with another unit's error between them
C2_Witness ==
    /\ Printed
    /\ Len(recorded) = 3
    /\ recorded[1][1] = recorded[3][1]
    /\ recorded[2][1] # recorded[1][1]
    /\ recorded[1][2] # recorded[3][2]

\* C3: get_errors returns one ErrorRecord per record_error call, in recording
\* order, the i-th with repository = the constructor's name and branch and
\* message = the i-th recorded pair.
C3_GetErrors ==
    (cls = "BranchProgressManager" /\ since_get = "clean") =>
        /\ Len(returned) = Len(recorded)
        /\ \A i \in 1..Len(returned) :
               /\ returned[i].repository = repo_name
               /\ returned[i].branch = recorded[i][1]
               /\ returned[i].message = recorded[i][2]

C3_Witness ==
    /\ cls = "BranchProgressManager"
    /\ since_get = "clean"
    /\ Len(recorded) = 3
    /\ recorded[1] # recorded[2]
    /\ Len(returned) = 3

\* C4: two close calls on one tracker release the display at most once: the
\* second close does nothing on the display.
C4_CloseReleasesOnce == display.close_calls <= 1

\* C5 as stated: processed never decreases, whatever the operation.
C5_ProcessedMonotonic == [][processed' >= processed]_vars

\* C5, amended: update(count) changes processed by exactly count, so processed
\* decreases only in an update with a negative count; update with count >= 0,
\* record_error, close and print_summary never lower it.
C5_DecreasesOnlyByNegativeUpdate ==
    [][processed' < processed =>
           \E count \in Counts : count < 0 /\ PM_update(count)]_vars

\* Non-negative updates, an error recorded, closed and the summary printed
C5_Witness ==
    /\ Printed
    /\ processed = 4
    /\ advances = <<2, 2>>
    /\ recorded # <<>>
    /\ closed

\* C6: a tracker constructed with total = 0 or quiet = true has no display, and
\* no update or close ever reaches one; a display exists only if total > 0 and
\* quiet is false.
C6_NoDisplayWhenEmptyOrQuiet ==
    LET total == IF cls = "ProgressManager" THEN total_repos ELSE total_branches
    IN  /\ (total = 0 \/ quiet) => (progress_bar = "None" /\ display = NoDisplay)
        /\ (progress_bar # "None" \/ display.created) => (total > 0 /\ ~quiet)

\* A quiet tracker with a positive total after update and close calls
C6_Witness ==
    /\ quiet
    /\ total_repos + total_branches > 0
    /\ advances # <<>>
    /\ closed

\* C7: processed is the sum of the counts passed to update, whatever
\* total_repos is (no clamping); the other operations leave it alone.
C7_ProcessedIsSum == cls = "ProgressManager" => processed = SumSeq(advances)

\* The sum exceeds the total, with other calls made as well
C7_Witness ==
    /\ cls = "ProgressManager"
    /\ total_repos = 2
    /\ processed = 4
    /\ recorded # <<>>
    /\ closed
    /\ stdout # <<>>

\* C8: with no error recorded, print_summary prints the separator-framed
\* header and the one "no errors" line: no unit header, no error line, no
\* error count.
C8_NoErrorsSummary ==
    (Printed /\ recorded = <<>>) =>
        /\ Occurrences(NoErrorsLine, stdout) = 1
        /\ Occurrences(HeaderLine(processed, total_repos), stdout) = 1
        /\ \A i \in 1..Len(stdout) :
               /\ ~IsRepositoryLine(stdout[i])
               /\ ~IsErrorLine(stdout[i])
               /\ ~IsCountLine(stdout[i])

C8_Witness ==
    /\ Printed
    /\ recorded = <<>>
    /\ processed > total_repos
    /\ total_repos > 0

\* C9: the error list only grows at its end: every step leaves it a prefix of
\* its next value, record_error adds exactly its one entry, get_errors leaves
\* the list alone, and a get_errors with no record_error since the previous
\* one returns what the previous one returned.
C9_AppendOnly ==
    [][/\ IsPrefixOf(errors, errors')
       /\ recorded' = recorded => errors' = errors
       /\ recorded' # recorded => Len(errors') = Len(errors) + 1
       /\ BPM_get_errors => errors' = errors
       /\ (BPM_get_errors /\ since_get = "clean") => returned' = returned]_vars

\* get_errors called after errors were recorded, with the list still there
C9_Witness ==
    /\ cls = "BranchProgressManager"
    /\ since_get = "clean"
    /\ Len(errors) = 2
    /\ Len(returned) = 2
    /\ closed

\* C10: when errors were recorded, print_summary renders each exactly once:
\* the printed count is the number of record_error calls, so is the number of
\* error lines, and every unit's block holds each of that unit's renderings as
\* often as it was recorded (message alone for an empty sub-unit, the
\* sub-unit-qualified message otherwise).
C10_EveryErrorOnce ==
    (Printed /\ recorded # <<>>) =>
        /\ Occurrences(CountPrefix \o IntToStr(Len(recorded)) \o CountSuffix, stdout) = 1
        /\ Cardinality({i \in 1..Len(stdout) : IsCountLine(stdout[i])}) = 1
        /\ Cardinality({i \in 1..Len(stdout) : IsErrorLine(stdout[i])}) = Len(recorded)
        /\ \A k \in 1..Len(recorded) :
               \E i \in 1..Len(stdout) :
                   /\ stdout[i] = RepositoryPrefix \o recorded[k][1]
                   /\ Occurrences(ExpectedLine(recorded[k]), BlockOf(i))
                          = Cardinality({m \in 1..Len(recorded) :
                                /\ recorded[m][1] = recorded[k][1]
                                /\ ExpectedLine(recorded[m]) = ExpectedLine(recorded[k])})

\* The same error recorded twice, and one with and one without a sub-unit
C10_Witness ==
    /\ Printed
    /\ Len(recorded) = 3
    /\ recorded[1] = recorded[3]
    /\ recorded[2][2] = <<>>
    /\ recorded[1][2] # <<>>

====
